---- MODULE Spec2Model ----
(***************************************************************************)
(* A model of the two example programs of the ocl repository:              *)
(*   examples/timed.rs  timed kernel / buffer-transfer benchmark           *)
(*   examples/info.rs   platform / device information printer              *)
(*                                                                         *)
(* Values of type f32 are modelled in fixed point, in units of 0.1: the    *)
(* scalar 1.0 is 10, the margin of error 0.1 is 1, the initial value range *)
(* (100.0, 200.0) is 1000..2000.                                           *)
(***************************************************************************)
EXTENDS Integers, Sequences, FiniteSets, TLC

\* ------------------------------------------------------------------ bounds
MaxDatasetSize == 3
MaxKernelRunIters == 2
MaxBufferReadIters == 1
MaxKernelAndBufferIters == 2
MaxResultsToPrint == 2
MaxPlatforms == 3
MaxDevices == 2

\* --------------------------------------------------- timed.rs: the state
VARIABLES
    DATASET_SIZE,            \* const DATASET_SIZE
    KERNEL_RUN_ITERS,        \* const KERNEL_RUN_ITERS
    BUFFER_READ_ITERS,       \* const BUFFER_READ_ITERS
    KERNEL_AND_BUFFER_ITERS, \* const KERNEL_AND_BUFFER_ITERS
    SCALAR,                  \* const SCALAR
    PRINT_SOME_RESULTS,      \* const PRINT_SOME_RESULTS
    RESULTS_TO_PRINT,        \* const RESULTS_TO_PRINT
    in_order,                \* the command queue executes in enqueue order
    pc,                      \* position of main
    i,                       \* the running loop's iteration counter
    buffer_init,             \* buffer_init, host vector and device memory
    dev_result,              \* buffer_result, device memory
    vec_result,              \* buffer_result, host vector
    kern_source,             \* the kernel's "source" argument
    queue,                   \* commands enqueued and not yet complete
    next_id,                 \* id (event) of the next command enqueued
    kern_events,             \* EventList kern_events
    buf_events,              \* EventList buf_events
    v_call,                  \* which verify_results call is running (1..4)
    iters,                   \* verify_results: argument iters
    idx,                     \* verify_results: loop index
    lines_printed,           \* sample lines the last verify_results printed
    n_all_correct,           \* times "All result values are correct." printed
    panic,                   \* "none", or why the process aborted
    phases,                  \* the phases begun so far, in order
    kernel_runs,             \* kernel runs enqueued since program start
    nb_base                  \* device buffer_result when the non-blocking phase began

\* ---------------------------------------------------- info.rs: the state
VARIABLES
    platforms,               \* Platform::list(): the device count of each platform
    ipc,                     \* position of info.rs main
    p_idx,                   \* platform loop index
    d_idx,                   \* device loop index
    built,                   \* how many objects of each type were built
    kernel_state,            \* the current device's kernel run
    event,                   \* the event cloned from the event list
    out                      \* what was printed, in order

cfgvars == <<DATASET_SIZE, KERNEL_RUN_ITERS, BUFFER_READ_ITERS,
             KERNEL_AND_BUFFER_ITERS, SCALAR, PRINT_SOME_RESULTS,
             RESULTS_TO_PRINT, in_order, buffer_init>>
hostvars == <<pc, i, kern_source, kern_events, buf_events, phases, nb_base>>
verifyvars == <<v_call, iters, idx, lines_printed, n_all_correct, panic>>
devvars == <<dev_result, vec_result, queue, next_id, kernel_runs>>
tvars == <<cfgvars, hostvars, verifyvars, devvars>>
ivars == <<platforms, ipc, p_idx, d_idx, built, kernel_state, event, out>>
vars == <<tvars, ivars>>

\* ------------------------------------------------ timed.rs: the constants
\* SCALAR: 1.0 as shipped; 0.1 is the margin itself
ScalarVals == {1, 10}
\* INIT_VAL_RANGE = (100.0, 200.0)
InitVals == {1000, 2000}
\* let margin_of_error = 0.1 as f32
margin_of_error == 1

Abs(x) == IF x < 0 THEN -x ELSE x

Indices == 0 .. (DATASET_SIZE - 1)

\* --------------------------------------------------- the command queue
\* Event e belongs to a command that ran to completion.
Completed(e) == e < next_id /\ \A k \in 1..Len(queue) : queue[k].id # e

Remove(s, k) == [j \in 1..(Len(s) - 1) |-> IF j < k THEN s[j] ELSE s[j + 1]]

\* A command as the queue holds it.
Command(kind, source, wait) ==
    [id |-> next_id, kind |-> kind, source |-> source, wait |-> wait,
     phase |-> Len(phases), running |-> FALSE]

\* __kernel void add: result[idx] = source[idx] + scalar
KernelAdd(source, scalar) == [j \in DOMAIN source |-> source[j] + scalar]

\* kern.enqueue(wait_list, dest_list)
EnqueueKernel(wait) ==
    /\ queue' = Append(queue, Command("kernel", kern_source, wait))
    /\ next_id' = next_id + 1
    /\ kernel_runs' = kernel_runs + 1

\* buffer_result.fill_vec() / fill_vec_async(wait_list, dest_list)
EnqueueRead(wait) ==
    /\ queue' = Append(queue, Command("read", "result", wait))
    /\ next_id' = next_id + 1
    /\ UNCHANGED kernel_runs

Alive == panic = "none"

\* The device takes up a command: its wait list is complete and, on an
\* in-order queue, so is every command enqueued before it.
\* (ProQue::builder().build() creates its queue with no properties: in order.)
DeviceStart ==
    /\ Alive
    /\ \E k \in 1..Len(queue) :
        /\ ~queue[k].running
        /\ \A e \in queue[k].wait : Completed(e)
        /\ in_order => k = 1
        /\ queue' = [queue EXCEPT ![k].running = TRUE]
    /\ UNCHANGED <<cfgvars, hostvars, verifyvars, dev_result, vec_result,
                   next_id, kernel_runs, ivars>>

\* The device completes a command: a kernel run writes buffer_result on
\* the device, a read copies it into the host vector.
DeviceFinish ==
    /\ Alive
    /\ \E k \in 1..Len(queue) :
        /\ queue[k].running
        /\ IF queue[k].kind = "kernel"
           THEN /\ dev_result' = KernelAdd(IF queue[k].source = "init"
                                              THEN buffer_init
                                              ELSE dev_result, SCALAR)
                /\ UNCHANGED vec_result
           ELSE /\ vec_result' = dev_result
                /\ UNCHANGED dev_result
        /\ queue' = Remove(queue, k)
    /\ UNCHANGED <<cfgvars, hostvars, verifyvars, next_id, kernel_runs, ivars>>

\* ------------------------------------------------- timed.rs: main, phase 1
\* println!("Enqueuing {} kernel runs... "); let kern_start = Instant::now()
KernBegin ==
    /\ pc = "kern_begin"
    /\ phases' = Append(phases, "kernel")
    /\ pc' = "kern_first"
    /\ UNCHANGED <<cfgvars, i, kern_source, kern_events, buf_events, nb_base,
                   verifyvars, devvars, ivars>>

\* kern.enqueue(None, None), the first time
KernFirst ==
    /\ pc = "kern_first"
    /\ EnqueueKernel({})
    /\ pc' = "kern_set_arg"
    /\ UNCHANGED <<cfgvars, i, kern_source, kern_events, buf_events, phases,
                   nb_base, verifyvars, dev_result, vec_result, ivars>>

\* kern.set_arg_buf_named("source", Some(&buffer_result))
KernSetArg_Forgotten ==
    /\ pc = "kern_set_arg"
    /\ pc' = "kern_loop"
    /\ i' = 0
    /\ UNCHANGED <<cfgvars, kern_source, kern_events, buf_events, phases, nb_base,
                   verifyvars, devvars, ivars>>
KernSetArg ==
    /\ pc = "kern_set_arg"
    /\ kern_source' = "result"
    /\ pc' = "kern_loop"
    /\ i' = 0
    /\ UNCHANGED <<cfgvars, kern_events, buf_events, phases, nb_base,
                   verifyvars, devvars, ivars>>

\* for _ in 0..(KERNEL_RUN_ITERS - 1) { kern.enqueue(None, None); }
KernLoop ==
    /\ pc = "kern_loop"
    /\ IF i < KERNEL_RUN_ITERS - 1
       THEN /\ EnqueueKernel({})
            /\ i' = i + 1
            /\ pc' = pc
       ELSE /\ pc' = "kern_finish"
            /\ UNCHANGED <<i, queue, next_id, kernel_runs>>
    /\ UNCHANGED <<cfgvars, kern_source, kern_events, buf_events, phases, nb_base,
                   verifyvars, dev_result, vec_result, ivars>>

\* ocl_pq.queue().finish(): returns once every enqueued command is complete
KernFinish_NoWait ==
    /\ pc = "kern_finish"
    /\ pc' = "buf_begin"
    /\ UNCHANGED <<cfgvars, i, kern_source, kern_events, buf_events, phases,
                   nb_base, verifyvars, devvars, ivars>>
KernFinish ==
    /\ pc = "kern_finish"
    /\ queue = << >>
    /\ pc' = "buf_begin"
    /\ UNCHANGED <<cfgvars, i, kern_source, kern_events, buf_events, phases,
                   nb_base, verifyvars, devvars, ivars>>

\* ------------------------------------------------------------- phase 2
\* println!("Enqueuing {} buffer reads... "); let buffer_start = Instant::now()
BufBegin ==
    /\ pc = "buf_begin"
    /\ phases' = Append(phases, "buffer")
    /\ i' = 0
    /\ pc' = "buf_loop"
    /\ UNCHANGED <<cfgvars, kern_source, kern_events, buf_events, nb_base,
                   verifyvars, devvars, ivars>>

\* for _ in 0..BUFFER_READ_ITERS { buffer_result.fill_vec(); }: the call
BufLoop ==
    /\ pc = "buf_loop"
    /\ IF i < BUFFER_READ_ITERS
       THEN /\ EnqueueRead({})
            /\ pc' = "buf_wait"
       ELSE /\ pc' = "buf_finish"
            /\ UNCHANGED <<queue, next_id, kernel_runs>>
    /\ UNCHANGED <<cfgvars, i, kern_source, kern_events, buf_events, phases,
                   nb_base, verifyvars, dev_result, vec_result, ivars>>

\* buffer_result.fill_vec() blocks until its read is complete
BufWait ==
    /\ pc = "buf_wait"
    /\ Completed(next_id - 1)
    /\ i' = i + 1
    /\ pc' = "buf_loop"
    /\ UNCHANGED <<cfgvars, kern_source, kern_events, buf_events, phases,
                   nb_base, verifyvars, devvars, ivars>>

\* The iters argument of the n-th verify_results call of main.
VerifyIters(n) ==
    CASE n = 1 -> KERNEL_RUN_ITERS
      [] n = 2 -> KERNEL_AND_BUFFER_ITERS + KERNEL_RUN_ITERS
      [] n = 3 -> KERNEL_AND_BUFFER_ITERS + KERNEL_AND_BUFFER_ITERS
                    + KERNEL_RUN_ITERS
      [] n = 4 -> KERNEL_AND_BUFFER_ITERS + KERNEL_AND_BUFFER_ITERS
                    + KERNEL_AND_BUFFER_ITERS + KERNEL_RUN_ITERS

\* verify_results(&buffer_init, &buffer_result, iters): the call and the
\* lines before its loop
VerifyCall(n) ==
    /\ v_call' = n
    /\ iters' = VerifyIters(n)
    /\ idx' = 0
    /\ lines_printed' = 0
    /\ pc' = "verify"
    /\ UNCHANGED <<n_all_correct, panic>>

\* ocl_pq.queue().finish(); verify_results(.., KERNEL_RUN_ITERS)
BufFinish ==
    /\ pc = "buf_finish"
    /\ queue = << >>
    /\ VerifyCall(1)
    /\ UNCHANGED <<cfgvars, i, kern_source, kern_events, buf_events, phases,
                   nb_base, devvars, ivars>>

\* ------------------------------------------------------ verify_results
\* assert!((correct - buffer_result[idx]).abs() < margin_of_error, ..)
WithinMargin_Inclusive(correct, result) == Abs(correct - result) <= margin_of_error
WithinMargin(correct, result) == Abs(correct - result) < margin_of_error

\* let correct = buffer_init[idx] + (iters as f32 * SCALAR)
Correct(j) == buffer_init[j] + iters * SCALAR

\* PRINT_SOME_RESULTS && (idx % (DATASET_SIZE / RESULTS_TO_PRINT)) == 0
Selected(j) ==
    PRINT_SOME_RESULTS /\ j % (DATASET_SIZE \div RESULTS_TO_PRINT) = 0

\* Where main goes on after its n-th verify_results call.
AfterVerify(n) ==
    CASE n = 1 -> "kb_begin"
      [] n = 2 -> "nb_begin"
      [] n = 3 -> "cio_begin"
      [] n = 4 -> "done"

\* One iteration of for idx in 0..DATASET_SIZE, and after the last one the
\* lines that follow the loop.
VerifyStep ==
    /\ pc = "verify"
    /\ IF ~WithinMargin(Correct(idx), vec_result[idx])
       THEN /\ panic' = "assert"
            /\ pc' = "panicked"
            /\ UNCHANGED <<idx, lines_printed, n_all_correct>>
       ELSE IF PRINT_SOME_RESULTS /\ DATASET_SIZE \div RESULTS_TO_PRINT = 0
       THEN /\ panic' = "div_by_zero"
            /\ pc' = "panicked"
            /\ UNCHANGED <<idx, lines_printed, n_all_correct>>
       ELSE /\ lines_printed' = IF Selected(idx) THEN lines_printed + 1
                                                 ELSE lines_printed
            /\ idx' = idx + 1
            /\ IF idx + 1 < DATASET_SIZE
               THEN UNCHANGED <<pc, n_all_correct>>
               ELSE /\ n_all_correct' = n_all_correct + 1
                    /\ pc' = AfterVerify(v_call)
            /\ UNCHANGED panic
    /\ UNCHANGED <<cfgvars, i, kern_source, kern_events, buf_events, phases,
                   nb_base, v_call, iters, devvars, ivars>>

\* ------------------------------------------------------------- phase 3
\* println!("Enqueuing {} blocking kernel buffer sequences... ")
KbBegin ==
    /\ pc = "kb_begin"
    /\ phases' = Append(phases, "blocking")
    /\ i' = 0
    /\ pc' = "kb_loop"
    /\ UNCHANGED <<cfgvars, kern_source, kern_events, buf_events, nb_base,
                   verifyvars, devvars, ivars>>

\* for _ in 0..(KERNEL_AND_BUFFER_ITERS) { kern.enqueue(None, None); ..
KbLoop ==
    /\ pc = "kb_loop"
    /\ IF i < KERNEL_AND_BUFFER_ITERS
       THEN /\ EnqueueKernel({})
            /\ pc' = "kb_read"
       ELSE /\ pc' = "kb_finish"
            /\ UNCHANGED <<queue, next_id, kernel_runs>>
    /\ UNCHANGED <<cfgvars, i, kern_source, kern_events, buf_events, phases,
                   nb_base, verifyvars, dev_result, vec_result, ivars>>

\* .. buffer_result.fill_vec(); }: the call
KbRead ==
    /\ pc = "kb_read"
    /\ EnqueueRead({})
    /\ pc' = "kb_wait"
    /\ UNCHANGED <<cfgvars, i, kern_source, kern_events, buf_events, phases,
                   nb_base, verifyvars, dev_result, vec_result, ivars>>

\* buffer_result.fill_vec() blocks until its read is complete
KbWait ==
    /\ pc = "kb_wait"
    /\ Completed(next_id - 1)
    /\ i' = i + 1
    /\ pc' = "kb_loop"
    /\ UNCHANGED <<cfgvars, kern_source, kern_events, buf_events, phases,
                   nb_base, verifyvars, devvars, ivars>>

\* ocl_pq.queue().finish(); verify_results(.., KERNEL_AND_BUFFER_ITERS + KERNEL_RUN_ITERS)
KbFinish ==
    /\ pc = "kb_finish"
    /\ queue = << >>
    /\ VerifyCall(2)
    /\ UNCHANGED <<cfgvars, i, kern_source, kern_events, buf_events, phases,
                   nb_base, devvars, ivars>>

\* ------------------------------------------------------------- phase 4
\* println!("Enqueuing {} non-blocking kernel buffer sequences... ");
\* let mut kern_events = EventList::new(); let mut buf_events = EventList::new()
NbBegin ==
    /\ pc = "nb_begin"
    /\ phases' = Append(phases, "nonblocking")
    /\ kern_events' = {}
    /\ buf_events' = {}
    /\ nb_base' = dev_result
    /\ i' = 0
    /\ pc' = "nb_loop"
    /\ UNCHANGED <<cfgvars, kern_source, verifyvars, devvars, ivars>>

\* for _ in 0..(KERNEL_AND_BUFFER_ITERS) {
\*     kern.enqueue(Some(&buf_events), Some(&mut kern_events)); ..
NbLoop ==
    /\ pc = "nb_loop"
    /\ IF i < KERNEL_AND_BUFFER_ITERS
       THEN /\ EnqueueKernel(buf_events)
            /\ kern_events' = kern_events \cup {next_id}
            /\ pc' = "nb_read"
       ELSE /\ pc' = "nb_finish"
            /\ UNCHANGED <<queue, next_id, kernel_runs, kern_events>>
    /\ UNCHANGED <<cfgvars, i, kern_source, buf_events, phases, nb_base,
                   verifyvars, dev_result, vec_result, ivars>>

\* .. buffer_result.fill_vec_async(Some(&kern_events), Some(&mut buf_events)) }
NbRead_NoWaitList ==
    /\ pc = "nb_read"
    /\ EnqueueRead({})
    /\ buf_events' = buf_events \cup {next_id}
    /\ i' = i + 1
    /\ pc' = "nb_loop"
    /\ UNCHANGED <<cfgvars, kern_source, kern_events, phases, nb_base,
                   verifyvars, dev_result, vec_result, ivars>>
NbRead ==
    /\ pc = "nb_read"
    /\ EnqueueRead(kern_events)
    /\ buf_events' = buf_events \cup {next_id}
    /\ i' = i + 1
    /\ pc' = "nb_loop"
    /\ UNCHANGED <<cfgvars, kern_source, kern_events, phases, nb_base,
                   verifyvars, dev_result, vec_result, ivars>>

\* ocl_pq.queue().finish(); verify_results(.., 2 * KERNEL_AND_BUFFER_ITERS + KERNEL_RUN_ITERS)
NbFinish ==
    /\ pc = "nb_finish"
    /\ queue = << >>
    /\ VerifyCall(3)
    /\ UNCHANGED <<cfgvars, i, kern_source, kern_events, buf_events, phases,
                   nb_base, devvars, ivars>>

\* ------------------------------------------------------------- phase 5
\* println!("Enqueuing {} oh-fuck-it kernel buffer sequences... ");
\* let mut kern_events = EventList::new(); let mut buf_events = EventList::new()
CioBegin ==
    /\ pc = "cio_begin"
    /\ phases' = Append(phases, "unordered")
    /\ kern_events' = {}
    /\ buf_events' = {}
    /\ i' = 0
    /\ pc' = "cio_loop"
    /\ UNCHANGED <<cfgvars, kern_source, nb_base, verifyvars, devvars, ivars>>

\* for _ in 0..(KERNEL_AND_BUFFER_ITERS) {
\*     kern.enqueue(None, Some(&mut kern_events)); ..
CioLoop ==
    /\ pc = "cio_loop"
    /\ IF i < KERNEL_AND_BUFFER_ITERS
       THEN /\ EnqueueKernel({})
            /\ kern_events' = kern_events \cup {next_id}
            /\ pc' = "cio_read"
       ELSE /\ pc' = "cio_finish"
            /\ UNCHANGED <<queue, next_id, kernel_runs, kern_events>>
    /\ UNCHANGED <<cfgvars, i, kern_source, buf_events, phases, nb_base,
                   verifyvars, dev_result, vec_result, ivars>>

\* .. buffer_result.fill_vec_async(None, Some(&mut buf_events)) }
CioRead ==
    /\ pc = "cio_read"
    /\ EnqueueRead({})
    /\ buf_events' = buf_events \cup {next_id}
    /\ i' = i + 1
    /\ pc' = "cio_loop"
    /\ UNCHANGED <<cfgvars, kern_source, kern_events, phases, nb_base,
                   verifyvars, dev_result, vec_result, ivars>>

\* ocl_pq.queue().finish(); verify_results(.., 3 * KERNEL_AND_BUFFER_ITERS + KERNEL_RUN_ITERS)
CioFinish_NoWait ==
    /\ pc = "cio_finish"
    /\ VerifyCall(4)
    /\ UNCHANGED <<cfgvars, i, kern_source, kern_events, buf_events, phases,
                   nb_base, devvars, ivars>>
CioFinish ==
    /\ pc = "cio_finish"
    /\ queue = << >>
    /\ VerifyCall(4)
    /\ UNCHANGED <<cfgvars, i, kern_source, kern_events, buf_events, phases,
                   nb_base, devvars, ivars>>

\* --------------------------------------------------------- info.rs: main
\* The devices of the platform at p_idx: Device::list_all(platform).len()
Devices == platforms[p_idx + 1]

Build(what) == [built EXCEPT ![what] = @ + 1]

BuildAll(whats) == [w \in DOMAIN built |-> IF w \in whats THEN built[w] + 1 ELSE built[w]]

\* for p_idx in 0..platforms.len() { let devices = Device::list_all(platform);
\*     let context = Context::builder()...build().unwrap(); ..
PlatformLoop ==
    /\ ipc = "platform_loop"
    /\ IF p_idx < Len(platforms)
       THEN /\ built' = Build("context")
            /\ ipc' = "print_platform"
       ELSE /\ ipc' = "done"
            /\ UNCHANGED built
    /\ UNCHANGED <<platforms, p_idx, d_idx, kernel_state, event, out, tvars>>

\* print_platform_info(&platform)
PrintPlatformInfo ==
    /\ ipc = "print_platform"
    /\ out' = Append(out, [what |-> "platform", p |-> p_idx, d |-> 0,
                           run |-> "none", event |-> << >>])
    /\ d_idx' = 0
    /\ ipc' = "device_loop"
    /\ UNCHANGED <<platforms, p_idx, built, kernel_state, event, tvars>>

\* for d_idx in 0..devices.len() { let queue = ..; let buffer = ..;
\*     let image = ..; let sampler = ..; let program = ..; let kernel = ..;
\*     let mut event_list = EventList::new(); ..
DeviceObjects == {"queue", "buffer", "image", "sampler", "program", "kernel"}
DeviceLoop_ContextPerDevice ==
    /\ ipc = "device_loop"
    /\ IF d_idx < Devices
       THEN /\ built' = BuildAll(DeviceObjects \cup {"context"})
            /\ kernel_state' = "none"
            /\ ipc' = "enqueue"
            /\ UNCHANGED p_idx
       ELSE /\ p_idx' = p_idx + 1
            /\ ipc' = "platform_loop"
            /\ UNCHANGED <<built, kernel_state>>
    /\ UNCHANGED <<platforms, d_idx, event, out, tvars>>
DeviceLoop ==
    /\ ipc = "device_loop"
    /\ IF d_idx < Devices
       THEN /\ built' = BuildAll(DeviceObjects)
            /\ kernel_state' = "none"
            /\ ipc' = "enqueue"
            /\ UNCHANGED p_idx
       ELSE /\ p_idx' = p_idx + 1
            /\ ipc' = "platform_loop"
            /\ UNCHANGED <<built, kernel_state>>
    /\ UNCHANGED <<platforms, d_idx, event, out, tvars>>

\* kernel.cmd().dest(&mut event_list).enq().unwrap();
\* let event = event_list.last_clone().unwrap()
EnqueueKernelRun ==
    /\ ipc = "enqueue"
    /\ kernel_state' = "queued"
    /\ built' = Build("run")
    /\ event' = <<p_idx, d_idx>>
    /\ ipc' = "wait"
    /\ UNCHANGED <<platforms, p_idx, d_idx, out, tvars>>

\* The device runs the kernel.
InfoDeviceRun ==
    /\ kernel_state = "queued"
    /\ kernel_state' = "complete"
    /\ UNCHANGED <<platforms, ipc, p_idx, d_idx, built, event, out, tvars>>

\* event_list.wait(): returns once the kernel run is complete
EventListWait_NoWait ==
    /\ ipc = "wait"
    /\ ipc' = "print_device"
    /\ UNCHANGED <<platforms, p_idx, d_idx, built, kernel_state, event, out, tvars>>
EventListWait ==
    /\ ipc = "wait"
    /\ kernel_state = "complete"
    /\ ipc' = "print_device"
    /\ UNCHANGED <<platforms, p_idx, d_idx, built, kernel_state, event, out, tvars>>

\* print_device_info(&device)
PrintDeviceInfo ==
    /\ ipc = "print_device"
    /\ out' = Append(out, [what |-> "device", p |-> p_idx, d |-> d_idx,
                           run |-> kernel_state, event |-> << >>])
    /\ ipc' = "print_rest"
    /\ UNCHANGED <<platforms, p_idx, d_idx, built, kernel_state, event, tvars>>

\* if (d_idx == devices.len() - 1) && (p_idx == platforms.len() - 1) {
\*     print_context_info(&context); .. print_event_info(&event); } }
PrintRest ==
    /\ ipc = "print_rest"
    /\ out' = IF (d_idx = Devices - 1) /\ (p_idx = Len(platforms) - 1)
              THEN Append(out, [what |-> "rest", p |-> p_idx, d |-> d_idx,
                                run |-> kernel_state, event |-> event])
              ELSE out
    /\ d_idx' = d_idx + 1
    /\ ipc' = "device_loop"
    /\ UNCHANGED <<platforms, p_idx, built, kernel_state, event, tvars>>

\* timed.rs is not running.
TimedIdle ==
    /\ DATASET_SIZE = 0
    /\ KERNEL_RUN_ITERS = 0
    /\ BUFFER_READ_ITERS = 0
    /\ KERNEL_AND_BUFFER_ITERS = 0
    /\ SCALAR = 0
    /\ PRINT_SOME_RESULTS = FALSE
    /\ RESULTS_TO_PRINT = 0
    /\ in_order = TRUE
    /\ buffer_init = << >>
    /\ dev_result = << >>
    /\ vec_result = << >>
    /\ kern_source = "init"
    /\ queue = << >>
    /\ next_id = 1
    /\ kern_events = {}
    /\ buf_events = {}
    /\ pc = "idle"
    /\ i = 0
    /\ v_call = 0
    /\ iters = 0
    /\ idx = 0
    /\ lines_printed = 0
    /\ n_all_correct = 0
    /\ panic = "none"
    /\ phases = << >>
    /\ kernel_runs = 0
    /\ nb_base = << >>

\* Platform::list(): at least one platform, each with any number of devices
PlatformLists ==
    UNION {[1..n -> 0..MaxDevices] : n \in 1..MaxPlatforms}

\* main up to its platform loop
InitInfo ==
    /\ platforms \in PlatformLists
    /\ ipc = "platform_loop"
    /\ p_idx = 0
    /\ d_idx = 0
    /\ built = [w \in DeviceObjects \cup {"context", "run"} |-> 0]
    /\ kernel_state = "none"
    /\ event = << >>
    /\ out = << >>
    /\ TimedIdle

NextInfo ==
    \/ PlatformLoop \/ PrintPlatformInfo \/ DeviceLoop \/ EnqueueKernelRun
    \/ InfoDeviceRun \/ EventListWait \/ PrintDeviceInfo \/ PrintRest

\* info.rs
SpecInfo == InitInfo /\ [][NextInfo]_vars

\* ------------------------------------------------- timed.rs: the program
\* info.rs is not running.
InfoIdle ==
    /\ platforms = << >>
    /\ ipc = "idle"
    /\ p_idx = 0
    /\ d_idx = 0
    /\ built = << >>
    /\ kernel_state = "none"
    /\ event = << >>
    /\ out = << >>

\* main up to the first phase: the buffers, the kernel and its arguments
MainStart ==
    /\ buffer_init \in [Indices -> InitVals]
    /\ dev_result = [j \in Indices |-> 0]
    /\ vec_result = [j \in Indices |-> 0]
    /\ kern_source = "init"
    /\ queue = << >>
    /\ next_id = 1
    /\ kern_events = {}
    /\ buf_events = {}
    /\ pc = "kern_begin"
    /\ i = 0
    /\ v_call = 0
    /\ iters = 0
    /\ idx = 0
    /\ lines_printed = 0
    /\ n_all_correct = 0
    /\ panic = "none"
    /\ phases = << >>
    /\ kernel_runs = 0
    /\ nb_base = [j \in Indices |-> 0]

\* The constants in the shape the program ships them: every *_ITERS at least
\* 1, and a data set no smaller than the number of results to print.
ShippedConsts ==
    /\ DATASET_SIZE \in 1..MaxDatasetSize
    /\ KERNEL_RUN_ITERS \in 1..MaxKernelRunIters
    /\ BUFFER_READ_ITERS \in 1..MaxBufferReadIters
    /\ KERNEL_AND_BUFFER_ITERS \in 1..MaxKernelAndBufferIters
    /\ SCALAR \in ScalarVals
    /\ PRINT_SOME_RESULTS \in BOOLEAN
    /\ RESULTS_TO_PRINT \in 1..DATASET_SIZE

\* The constants set to "anything at all".
AnyConsts ==
    /\ DATASET_SIZE \in 1..MaxDatasetSize
    /\ KERNEL_RUN_ITERS \in 0..MaxKernelRunIters
    /\ BUFFER_READ_ITERS \in 0..MaxBufferReadIters
    /\ KERNEL_AND_BUFFER_ITERS \in 0..MaxKernelAndBufferIters
    /\ SCALAR \in ScalarVals
    /\ PRINT_SOME_RESULTS \in BOOLEAN
    /\ RESULTS_TO_PRINT \in 1..MaxResultsToPrint

\* The same, with the two printing constants, which no command of the queue
\* reads, at one value each.
OutOfOrderConsts ==
    /\ ShippedConsts
    /\ PRINT_SOME_RESULTS = TRUE
    /\ RESULTS_TO_PRINT = 1

Init == ShippedConsts /\ in_order = TRUE /\ MainStart /\ InfoIdle

InitConsts == AnyConsts /\ in_order = TRUE /\ MainStart /\ InfoIdle

InitOutOfOrder == OutOfOrderConsts /\ in_order = FALSE /\ MainStart /\ InfoIdle

Next ==
    \/ KernBegin \/ KernFirst \/ KernSetArg \/ KernLoop \/ KernFinish
    \/ BufBegin \/ BufLoop \/ BufWait \/ BufFinish
    \/ VerifyStep
    \/ KbBegin \/ KbLoop \/ KbRead \/ KbWait \/ KbFinish
    \/ NbBegin \/ NbLoop \/ NbRead \/ NbFinish
    \/ CioBegin \/ CioLoop \/ CioRead \/ CioFinish
    \/ DeviceStart \/ DeviceFinish

\* timed.rs as shipped, on the in-order queue ProQue builds
Spec == Init /\ [][Next]_vars

\* timed.rs with its constants edited
SpecConsts == InitConsts /\ [][Next]_vars

\* timed.rs on a queue that may execute commands out of order
SpecOutOfOrder == InitOutOfOrder /\ [][Next]_vars

\* How far the host vector handed to verify_results is off, per element
\* (0.1 below, exact, 0.1 above).
ReadErrors == {-1, 0, 1}

\* main at its first verify_results call (line 104), the device buffer as
\* phases 1 and 2 leave it, the host vector any vector verify_results may be
\* handed.
InitVerify ==
    /\ ShippedConsts
    /\ in_order = TRUE
    /\ InfoIdle
    /\ buffer_init \in [Indices -> InitVals]
    /\ dev_result = [j \in Indices |-> buffer_init[j] + KERNEL_RUN_ITERS * SCALAR]
    /\ \E off \in [Indices -> ReadErrors] :
          vec_result = [j \in Indices |-> dev_result[j] + off[j]]
    /\ kern_source = "result"
    /\ queue = << >>
    /\ next_id = KERNEL_RUN_ITERS + BUFFER_READ_ITERS + 1
    /\ kern_events = {}
    /\ buf_events = {}
    /\ pc = "verify"
    /\ i = BUFFER_READ_ITERS
    /\ v_call = 1
    /\ iters = VerifyIters(1)
    /\ idx = 0
    /\ lines_printed = 0
    /\ n_all_correct = 0
    /\ panic = "none"
    /\ phases = <<"kernel", "buffer">>
    /\ kernel_runs = KERNEL_RUN_ITERS
    /\ nb_base = [j \in Indices |-> 0]

NextVerify ==
    \/ VerifyStep
    \/ KbBegin \/ KbLoop \/ KbRead \/ KbWait \/ KbFinish
    \/ NbBegin \/ NbLoop \/ NbRead \/ NbFinish
    \/ CioBegin \/ CioLoop \/ CioRead \/ CioFinish
    \/ DeviceStart \/ DeviceFinish

\* verify_results on any host vector, and main from there on
SpecVerify == InitVerify /\ [][NextVerify]_vars

\* ==================================================================== claims

\* What element j of the result must be after n kernel runs.
Expected(j, n) == buffer_init[j] + n * SCALAR

\* C1: at every verify_results call every element of the host result vector
\* is init + iters * SCALAR, and no call trips its assertion.
C1_VerifyPasses ==
    /\ panic # "assert"
    /\ pc = "verify" => \A j \in Indices : vec_result[j] = Expected(j, iters)

C1_Witness ==
    /\ pc = "done"
    /\ n_all_correct = 4
    /\ KERNEL_RUN_ITERS >= 2
    /\ KERNEL_AND_BUFFER_ITERS >= 2

FourPhases == <<"kernel", "buffer", "blocking", "nonblocking">>
FivePhases == <<"kernel", "buffer", "blocking", "nonblocking", "unordered">>

IsPrefix(s, t) == Len(s) <= Len(t) /\ \A k \in 1..Len(s) : s[k] = t[k]

\* Every command still in the queue was enqueued by the phase now running,
\* and a phase begins, verifies and ends on an empty queue.
PhasesSeparated ==
    /\ \A k \in 1..Len(queue) : queue[k].phase = Len(phases)
    /\ pc \in {"kern_begin", "buf_begin", "kb_begin", "nb_begin", "cio_begin",
               "verify", "done"} => queue = << >>
    /\ \A k \in 1..Len(queue) :
          /\ queue[k].phase = 1 => queue[k].kind = "kernel"
          /\ queue[k].phase = 2 => queue[k].kind = "read"

\* C2 as stated: exactly four phases, none after them.
C2_FourPhasesOnly ==
    /\ IsPrefix(phases, FourPhases)
    /\ pc = "done" => phases = FourPhases
    /\ PhasesSeparated

\* C2, amended: timed.rs runs exactly five timed phases, in this order:
\* kernel-only, buffer-read-only, blocking kernel+buffer, non-blocking
\* kernel+buffer ordered by event lists, non-blocking kernel+buffer without
\* wait lists; each ends with finish() before the next one starts.
C2_FivePhases ==
    /\ IsPrefix(phases, FivePhases)
    /\ pc = "done" => phases = FivePhases
    /\ kernel_runs > 0 => Len(phases) >= 1
    /\ PhasesSeparated

C2_Witness == pc = "done" /\ phases = FivePhases /\ kernel_runs > KERNEL_RUN_ITERS

\* C3: verify_results halts at the first index whose difference is not
\* strictly below 0.1: nothing runs after the panic, and "All result values
\* are correct." is printed only after every index passed.
C3_StatePart ==
    /\ pc = "verify" =>
          \A j \in 0..(idx - 1) : Abs(Expected(j, iters) - vec_result[j]) < 1
    /\ panic = "assert" =>
          /\ pc = "panicked"
          /\ Abs(Expected(idx, iters) - vec_result[idx]) >= 1
          /\ \A j \in 0..(idx - 1) : Abs(Expected(j, iters) - vec_result[j]) < 1
          /\ n_all_correct = v_call - 1
    /\ (pc = "verify" /\ \E j \in Indices : Abs(Expected(j, iters) - vec_result[j]) >= 1)
          => n_all_correct = v_call - 1

C3_ActionPart ==
    /\ pc = "panicked" => UNCHANGED vars
    /\ n_all_correct' # n_all_correct =>
          /\ n_all_correct' = n_all_correct + 1
          /\ idx' = DATASET_SIZE
          /\ \A j \in Indices : Abs(Expected(j, iters) - vec_result[j]) < 1
    /\ (pc = "verify" /\ \E j \in Indices : Abs(Expected(j, iters) - vec_result[j]) >= 1)
          => pc' \in {"verify", "panicked"}

\* C3: the state part in every state, the action part at every step.
C3_AssertHalts == [](C3_StatePart) /\ [][C3_ActionPart]_vars

C3_Witness ==
    /\ panic = "assert"
    /\ idx > 0
    /\ Abs(Expected(idx, iters) - vec_result[idx]) = 1

\* The commands the non-blocking phase enqueued.
NbCommands == {k \in 1..Len(queue) : queue[k].phase = 4}

NbReadsDone == Cardinality({e \in buf_events : Completed(e)})

\* C4: in the non-blocking phase the event lists order the commands
\* kernel_1, read_1, kernel_2, read_2, ... even on an out-of-order queue:
\* a command runs only when every earlier command of the phase is complete,
\* so no read overlaps a kernel run, and read j copies the value after j
\* kernel runs.
C4_EventListsOrder ==
    /\ \A k \in NbCommands :
          /\ queue[k].kind = "kernel" =>
                queue[k].wait = {e \in buf_events : e < queue[k].id}
          /\ queue[k].kind = "read" =>
                queue[k].wait = {e \in kern_events : e < queue[k].id}
          /\ queue[k].running =>
                \A m \in NbCommands : m # k => queue[m].id > queue[k].id
    /\ (Len(phases) = 4 /\ NbReadsDone >= 1) =>
          \A j \in Indices : vec_result[j] = nb_base[j] + NbReadsDone * SCALAR

C4_Witness ==
    /\ in_order = FALSE
    /\ Len(phases) = 4
    /\ NbReadsDone = 2
    /\ pc = "nb_finish"

\* C7: the kernel-only phase enqueues exactly KERNEL_RUN_ITERS kernel runs,
\* for every KERNEL_RUN_ITERS >= 0, and the iters of every verify_results
\* call is the number of kernel runs enqueued since program start.
C7_KernelRunsAsAnnounced ==
    /\ pc = "kern_finish" => kernel_runs = KERNEL_RUN_ITERS
    /\ pc = "verify" => iters = kernel_runs

C10_PrintsAsAnnounced ==
    /\ panic # "div_by_zero"
    /\ (PRINT_SOME_RESULTS /\ n_all_correct >= 1 /\ pc # "verify"
           /\ panic = "none") => lines_printed = RESULTS_TO_PRINT

\* ------------------------------------------------------- info.rs claims
RECURSIVE Sum(_)
Sum(s) == IF s = << >> THEN 0 ELSE s[1] + Sum(Tail(s))

TotalDevices == Sum(platforms)

Printed(what) == {k \in 1..Len(out) : out[k].what = what}

\* C5 as stated: as many contexts (and queues, buffers, images, samplers,
\* programs, kernels) are built as devices are iterated.
C5_ContextPerDevice ==
    ipc = "done" => \A w \in DeviceObjects \cup {"context"} : built[w] = TotalDevices

\* C5, amended: info.rs builds one context per platform, and for each device
\* of each platform a fresh queue, buffer, image, sampler, program and kernel.
C5_ContextPerPlatform ==
    ipc = "done" =>
        /\ built["context"] = Len(platforms)
        /\ \A w \in DeviceObjects : built[w] = TotalDevices

C5_Witness ==
    /\ ipc = "done"
    /\ Len(platforms) = 2
    /\ TotalDevices = 3

\* C6: the block printing context .. event info runs exactly once per run,
\* for every list of platforms, also when the last platform has no devices.
C6_RestPrintedOnce ==
    ipc = "done" => Cardinality(Printed("rest")) = 1

\* C9: platform info is printed once per platform and before its devices'
\* info; one kernel run is enqueued per device, and its device info is
\* printed only after event_list.wait() returned for that run; the event
\* printed at the end is that of the last device's kernel run.
C9_PrintOrder ==
    /\ \A a, b \in Printed("platform") : out[a].p = out[b].p => a = b
    /\ {out[a].p : a \in Printed("platform")} =
          0..((IF ipc \in {"platform_loop", "print_platform", "done"}
               THEN p_idx ELSE p_idx + 1) - 1)
    /\ \A b \in Printed("device") :
          /\ \E a \in Printed("platform") : a < b /\ out[a].p = out[b].p
          /\ out[b].run = "complete"
          /\ \A c \in Printed("device") :
                (out[c].p = out[b].p /\ out[c].d = out[b].d) => c = b
    /\ built["run"] = Cardinality(Printed("device"))
          + (IF ipc \in {"wait", "print_device"} THEN 1 ELSE 0)
    /\ ipc = "done" => built["run"] = TotalDevices
    /\ \A r \in Printed("rest") :
          /\ out[r].event = <<Len(platforms) - 1, platforms[Len(platforms)] - 1>>
          /\ out[r].event = <<out[r - 1].p, out[r - 1].d>>
          /\ out[r - 1].what = "device"
          /\ ipc = "done" => r = Len(out)

C9_Witness ==
    /\ ipc = "done"
    /\ Len(platforms) >= 2
    /\ Cardinality(Printed("rest")) = 1
    /\ Cardinality(Printed("device")) >= 3

====
